---- MODULE Spec2Model ----
(***************************************************************************)
(* Model of the user_extension plugin:                                     *)
(*   - management command approve_id_verification (Command.handle,         *)
(*     _approve_user_verification, _approve_all_users)                     *)
(*   - post_save receivers sync_extended_profile and                       *)
(*     auto_approve_id_verification_on_registration                        *)
(* The three tables (User, ManualVerification, ExtendedUserProfile) are    *)
(* shared state.  A user's username is modelled by the user's id.          *)
(***************************************************************************)
EXTENDS Integers, Sequences, FiniteSets, TLC

\* ---------------------------------------------------------------- bounds
MaxUser == 2             \* user ids are 1..MaxUser
ValidityDays == 1        \* how far back the cutoff lies (external policy)
MaxTime == 1             \* the clock runs from 0 to MaxTime
MaxBatchSize == 3        \* largest --batch-size tried in the small models
MaxRuns == 2             \* command invocations per behaviour
MaxEvents == 2           \* post_save deliveries per behaviour
NumWorkers == 2          \* request threads that deliver post_save

\* ------------------------------------------------------ program constants
DefaultBatchSize == 100
ProgressEvery == 50
PreviewLimit == 10

UserIds == 1..MaxUser
NoUsername == 0          \* options["username"] is None
MinBatchSize == 0 - 1
BatchSizes == MinBatchSize..MaxBatchSize
Workers == 1..NumWorkers

VARIABLES
    users,      \* ids of the rows of the User table
    mv,         \* ManualVerification table: sequence of rows, in insertion order
    profiles,   \* ExtendedUserProfile table: sequence of user ids
    now,        \* the clock
    faulty,     \* users for whom a ManualVerification query or insert may raise
    pk_order,   \* TRUE when the database returns unordered queries in id order
    cmd,        \* the management command process
    mv0,        \* ManualVerification table as it was when the command started
    runs,       \* command invocations so far
    hook,       \* per worker: the post_save delivery in progress
    events      \* post_save deliveries so far: <<user, kind>>, in order

vars == <<users, mv, profiles, now, faulty, pk_order, cmd, mv0, runs, hook, events>>

\* --------------------------------------------------------------- helpers
Range(s) == {s[i] : i \in 1..Len(s)}

Min(a, b) == IF a < b THEN a ELSE b

\* order_by("id"): the ids of S in ascending order
SortedSeq(S) ==
    [i \in 1..Cardinality(S) |-> CHOOSE x \in S : Cardinality({y \in S : y < x}) = i - 1]

\* every order in which the rows of S can come back
Orderings(S) ==
    {s \in [1..Cardinality(S) -> S] : \A i, j \in 1..Cardinality(S) : i # j => s[i] # s[j]}

\* Python slice s[i : j] for 0 <= i
Slice(s, i, j) == SubSeq(s, i + 1, Min(j, Len(s)))

\* i is produced by range(0, stop, step) given that the loop has arrived at i
InRange(i, stop, step) ==
    \/ step > 0 /\ i < stop
    \/ step < 0 /\ i > stop

\* ------------------------------------------------- ManualVerification table
earliest_allowed_verification_date(t) == t - ValidityDays

\* variant: the row is inserted with the model's default status instead of "approved"
NewVerificationPending(user, t) == [user_id |-> user, status |-> "created", created_at |-> t]

NewVerification(user, t) == [user_id |-> user, status |-> "approved", created_at |-> t]

\* variant: update_or_create, the user's earlier rows are replaced
CreateReplacing(table, user, t) ==
    Append(SelectSeq(table, LAMBDA r : r.user_id # user),
           [user_id |-> user, status |-> "approved", created_at |-> t])

\* ManualVerification.objects.create(user=user, status="approved")
Create(table, user, t) == Append(table, NewVerification(user, t))

\* variant: created_at__gt, a row created exactly at the cutoff does not count
ValidRowsStrict(table, user, earliest_date) ==
    {i \in 1..Len(table) :
        /\ table[i].user_id = user
        /\ table[i].status = "approved"
        /\ table[i].created_at > earliest_date}

\* filter(user=user, status="approved", created_at__gte=earliest_date)
ValidRows(table, user, earliest_date) ==
    {i \in 1..Len(table) :
        /\ table[i].user_id = user
        /\ table[i].status = "approved"
        /\ table[i].created_at >= earliest_date}

ExistsValid(table, user, earliest_date) == ValidRows(table, user, earliest_date) # {}

\* filter(status="approved", created_at__gte=earliest_date).values_list("user_id")
users_with_verification(table, earliest_date) ==
    {table[i].user_id : i \in {j \in 1..Len(table) :
        table[j].status = "approved" /\ table[j].created_at >= earliest_date}}

\* User.objects.exclude(id__in=users_with_verification).order_by("id")
users_to_approve(table, usrs, earliest_date) ==
    SortedSeq(usrs \ users_with_verification(table, earliest_date))

\* rows of User.objects.filter(id__in=batch_ids), which has no order_by
BatchRows(usrs, batch_ids, ordered) ==
    IF ordered THEN {SortedSeq(usrs \cap Range(batch_ids))}
    ELSE Orderings(usrs \cap Range(batch_ids))

\* ---------------------------------------------------------------- command
IdleCmd ==
    [pc |-> "idle", all_users |-> FALSE, username |-> NoUsername, batch_size |-> DefaultBatchSize,
     dry_run |-> FALSE, earliest_date |-> 0, total_users |-> 0, user_ids |-> <<>>,
     i |-> 0, rows |-> <<>>, approved_count |-> 0, error_count |-> 0,
     stdout |-> <<>>, log |-> <<>>, attempts |-> <<>>]

Write(c, line) == [c EXCEPT !.stdout = Append(@, line)]

\* variant: the check for missing options is absent
HandleBranchNoUsage(all_users, username) ==
    IF username # NoUsername THEN "single" ELSE "bulk"

\* which branch of handle() the options select (lines 57-70)
HandleBranch(all_users, username) ==
    IF ~all_users /\ username = NoUsername THEN "usage"
    ELSE IF username # NoUsername THEN "single"
    ELSE "bulk"

\* variant: dry_run is not consulted
SingleBranchNoDryRun(existing_verification, dry_run) ==
    IF existing_verification THEN "already" ELSE "create"

\* what _approve_user_verification does after its check (lines 85-95)
SingleBranch(existing_verification, dry_run) ==
    IF existing_verification THEN "already"
    ELSE IF dry_run THEN "dry"
    ELSE "create"

\* handle(): options are read, and the single-user path runs up to its insert
Handle(all_users, username, batch_size, dry_run) ==
    /\ cmd.pc \in {"idle", "done", "raised"}
    /\ runs < MaxRuns
    /\ runs' = runs + 1
    /\ mv0' = mv
    /\ LET c0 == [IdleCmd EXCEPT !.all_users = all_users, !.username = username,
                                 !.batch_size = batch_size, !.dry_run = dry_run,
                                 !.earliest_date = earliest_allowed_verification_date(now)]
           branch == HandleBranch(all_users, username)
       IN cmd' =
            IF branch = "usage"
            THEN [Write(c0, <<"ERROR", "You must specify either --all or --username">>)
                    EXCEPT !.pc = "done"]
            ELSE IF branch = "single"
            THEN IF username \notin users
                 THEN [Write(c0, <<"ERROR", "does not exist", username>>) EXCEPT !.pc = "done"]
                 ELSE LET sb == SingleBranch(ExistsValid(mv, username, c0.earliest_date), dry_run)
                      IN IF sb = "already"
                         THEN [Write(c0, <<"WARNING", "already has valid ID verification", username>>)
                                 EXCEPT !.pc = "done"]
                         ELSE IF sb = "dry"
                         THEN [Write(c0, <<"SUCCESS", "[DRY RUN] Would approve", username>>)
                                 EXCEPT !.pc = "done"]
                         ELSE [c0 EXCEPT !.pc = "single_create"]
            ELSE [c0 EXCEPT !.pc = "count"]
    /\ UNCHANGED <<users, mv, profiles, now, faulty, pk_order, hook, events>>

\* _approve_user_verification, lines 96-101: the insert, which may raise
SingleCreate ==
    /\ cmd.pc = "single_create"
    /\ \/ /\ mv' = Create(mv, cmd.username, now)
          /\ cmd' = [Write(cmd, <<"SUCCESS", "Approved ID verification for", cmd.username>>)
                        EXCEPT !.pc = "done",
                               !.log = Append(@, <<"info", cmd.username>>),
                               !.attempts = Append(@, cmd.username)]
       \/ /\ cmd.username \in faulty
          /\ mv' = mv
          /\ cmd' = [cmd EXCEPT !.pc = "raised", !.attempts = Append(@, cmd.username)]
    /\ UNCHANGED <<users, profiles, now, faulty, pk_order, mv0, runs, hook, events>>

\* _approve_all_users, lines 117-125: users_to_approve.count()
BulkCount ==
    /\ cmd.pc = "count"
    /\ LET total_users == Len(users_to_approve(mv, users, cmd.earliest_date))
           c1 == [cmd EXCEPT !.total_users = total_users]
       IN cmd' =
            IF total_users = 0
            THEN [Write(c1, <<"SUCCESS", "No users need ID verification approval">>)
                    EXCEPT !.pc = "done"]
            ELSE [Write(c1, <<"WARNING", "Found", total_users>>)
                    EXCEPT !.pc = IF cmd.dry_run THEN "preview" ELSE "list"]
    /\ UNCHANGED <<users, mv, profiles, now, faulty, pk_order, mv0, runs, hook, events>>

RECURSIVE PreviewLines(_)
PreviewLines(ids) ==
    IF ids = <<>> THEN <<>> ELSE << <<"  - ", Head(ids)>> >> \o PreviewLines(Tail(ids))

\* _approve_all_users, lines 127-138: the dry-run preview
BulkPreview ==
    /\ cmd.pc = "preview"
    /\ LET listed == Slice(users_to_approve(mv, users, cmd.earliest_date), 0, PreviewLimit)
           head == <<"SUCCESS", "[DRY RUN] Would approve", cmd.total_users>>
           more == IF cmd.total_users > PreviewLimit
                   THEN << <<"  ... and more", cmd.total_users - PreviewLimit>> >>
                   ELSE <<>>
       IN cmd' = [cmd EXCEPT !.pc = "done",
                             !.stdout = (Append(@, head) \o PreviewLines(listed)) \o more]
    /\ UNCHANGED <<users, mv, profiles, now, faulty, pk_order, mv0, runs, hook, events>>

\* _approve_all_users, lines 140-144: the counters and the work list
BulkList ==
    /\ cmd.pc = "list"
    /\ cmd' = [cmd EXCEPT !.pc = "loop", !.approved_count = 0, !.error_count = 0, !.i = 0,
                          !.user_ids = users_to_approve(mv, users, cmd.earliest_date)]
    /\ UNCHANGED <<users, mv, profiles, now, faulty, pk_order, mv0, runs, hook, events>>

\* variant: the trailing progress line is written after any approval
NeedsFinalProgressAlways(approved_count) == approved_count # 0

\* the trailing progress line is due (line 167)
NeedsFinalProgress(approved_count) == approved_count % ProgressEvery # 0

\* a progress line is due right after an approval (line 158)
NeedsProgress(approved_count) == approved_count % ProgressEvery = 0

Progress(c) == <<"Progress", c.approved_count, c.total_users>>

\* lines 166-174, after the batch loop
Finish(c) ==
    LET c1 == IF NeedsFinalProgress(c.approved_count) THEN Write(c, Progress(c)) ELSE c
    IN [Write(c1, <<"SUCCESS", "Completed!", c.approved_count, c.error_count>>)
          EXCEPT !.pc = "done"]

\* lines 146-148: the head of the batch loop; range() raises on a zero step
BulkBatch ==
    /\ cmd.pc = "loop"
    /\ \/ /\ cmd.batch_size = 0
          /\ cmd' = [cmd EXCEPT !.pc = "raised"]
       \/ /\ cmd.batch_size # 0
          /\ InRange(cmd.i, Len(cmd.user_ids), cmd.batch_size)
          /\ LET batch_ids == Slice(cmd.user_ids, cmd.i, cmd.i + cmd.batch_size)
             IN \E rows \in BatchRows(users, batch_ids, pk_order) :
                  cmd' = IF rows = <<>>
                         THEN [cmd EXCEPT !.i = @ + cmd.batch_size]
                         ELSE [cmd EXCEPT !.pc = "batch", !.rows = rows]
       \/ /\ cmd.batch_size # 0
          /\ ~InRange(cmd.i, Len(cmd.user_ids), cmd.batch_size)
          /\ cmd' = Finish(cmd)
    /\ UNCHANGED <<users, mv, profiles, now, faulty, pk_order, mv0, runs, hook, events>>

\* where the loop goes after one user of the batch (lines 146, 150)
NextUser(c) ==
    IF Len(c.rows) > 1 THEN [c EXCEPT !.rows = Tail(@)]
    ELSE [c EXCEPT !.rows = <<>>, !.pc = "loop", !.i = @ + c.batch_size]

\* lines 150-164: one user of the batch; a raising insert is counted and logged
BulkUser ==
    /\ cmd.pc = "batch"
    /\ LET user == Head(cmd.rows)
           c0 == [cmd EXCEPT !.attempts = Append(@, user)]
       IN \/ /\ mv' = Create(mv, user, now)
             /\ LET c1 == [c0 EXCEPT !.approved_count = @ + 1]
                    c2 == IF NeedsProgress(c1.approved_count) THEN Write(c1, Progress(c1)) ELSE c1
                IN cmd' = NextUser(c2)
          \/ /\ user \in faulty
             /\ mv' = mv
             /\ cmd' = NextUser([c0 EXCEPT !.error_count = @ + 1,
                                           !.log = Append(@, <<"error", user>>)])
    /\ UNCHANGED <<users, profiles, now, faulty, pk_order, mv0, runs, hook, events>>

\* time passes
Tick ==
    /\ now < MaxTime
    /\ now' = now + 1
    /\ UNCHANGED <<users, mv, profiles, faulty, pk_order, cmd, mv0, runs, hook, events>>

\* ------------------------------------------------------- post_save receivers
IdleHook == [pc |-> "idle", user |-> 0, created |-> FALSE, receivers |-> <<>>,
             log |-> <<>>, faults |-> 0, inserted |-> 0, raised_by |-> "none"]

\* the two receivers connected to post_save of User, in either order
ReceiverOrders ==
    {<<"sync_extended_profile", "auto_approve_id_verification_on_registration">>,
     <<"auto_approve_id_verification_on_registration", "sync_extended_profile">>}

Send(user, created, receivers) ==
    [IdleHook EXCEPT !.pc = "dispatch", !.user = user, !.created = created,
                     !.receivers = receivers]

\* a new account is saved: the User row is inserted and post_save is sent with created=True
UserCreated(w, user) ==
    /\ hook[w].pc \in {"idle", "returned", "raised"}
    /\ Len(events) < MaxEvents
    /\ user \notin users
    /\ users' = users \cup {user}
    /\ events' = Append(events, <<user, "new">>)
    /\ \E receivers \in ReceiverOrders : hook' = [hook EXCEPT ![w] = Send(user, TRUE, receivers)]
    /\ UNCHANGED <<mv, profiles, now, faulty, pk_order, cmd, mv0, runs>>

\* post_save is sent for an account that exists: an update, or created=True once more
UserSaved(w, user, created) ==
    /\ hook[w].pc \in {"idle", "returned", "raised"}
    /\ Len(events) < MaxEvents
    /\ user \in users
    /\ events' = Append(events, <<user, IF created THEN "created" ELSE "updated">>)
    /\ \E receivers \in ReceiverOrders : hook' = [hook EXCEPT ![w] = Send(user, created, receivers)]
    /\ UNCHANGED <<users, mv, profiles, now, faulty, pk_order, cmd, mv0, runs>>

\* the receiver has returned: the next one is called, or send() returns
NextReceiver(h) ==
    IF Len(h.receivers) > 1 THEN [h EXCEPT !.pc = "dispatch", !.receivers = Tail(@)]
    ELSE [h EXCEPT !.pc = "returned", !.receivers = <<>>]

\* an exception leaves the receiver: send() passes it on to the code that saved the user
Raise(h, receiver) == [h EXCEPT !.pc = "raised", !.raised_by = receiver]

\* ExtendedUserProfile.objects.create(user=instance) on the one-to-one profile table
ProfileInsertRaises(table, user) == user \in Range(table)

\* sync_extended_profile, lines 19-25
sync_extended_profile(w) ==
    /\ hook[w].pc = "dispatch"
    /\ Head(hook[w].receivers) = "sync_extended_profile"
    /\ IF hook[w].created
       THEN IF ProfileInsertRaises(profiles, hook[w].user)
            THEN /\ profiles' = profiles
                 /\ hook' = [hook EXCEPT ![w] = Raise(@, "sync_extended_profile")]
            ELSE /\ profiles' = Append(profiles, hook[w].user)
                 /\ hook' = [hook EXCEPT ![w] = NextReceiver(@)]
       ELSE /\ profiles' = profiles
            /\ hook' = [hook EXCEPT ![w] = NextReceiver(@)]
    /\ UNCHANGED <<users, mv, now, faulty, pk_order, cmd, mv0, runs, events>>

\* variant: the handler logs and raises again
CaughtReraise(h) ==
    Raise([h EXCEPT !.log = Append(@, <<"error", h.user>>)], "set_id_verification_status")

\* set_id_verification_status, lines 48-49: except Exception, log.error, and return
Caught(h) == NextReceiver([h EXCEPT !.log = Append(@, <<"error", h.user>>)])

\* auto_approve_id_verification_on_registration, lines 52-58, and the query of
\* set_id_verification_status, lines 33-42
auto_approve_check(w) ==
    /\ hook[w].pc = "dispatch"
    /\ Head(hook[w].receivers) = "auto_approve_id_verification_on_registration"
    /\ IF hook[w].created
       THEN \/ hook' = [hook EXCEPT ![w] =
                  IF ExistsValid(mv, @.user, earliest_allowed_verification_date(now))
                  THEN NextReceiver(@)
                  ELSE [@ EXCEPT !.pc = "create"]]
            \/ /\ hook[w].user \in faulty
               /\ hook' = [hook EXCEPT ![w] = Caught([@ EXCEPT !.faults = @ + 1])]
       ELSE hook' = [hook EXCEPT ![w] = NextReceiver(@)]
    /\ UNCHANGED <<users, mv, profiles, now, faulty, pk_order, cmd, mv0, runs, events>>

\* set_id_verification_status, lines 43-47: the insert
auto_approve_create(w) ==
    /\ hook[w].pc = "create"
    /\ \/ /\ mv' = Create(mv, hook[w].user, now)
          /\ hook' = [hook EXCEPT ![w] =
                NextReceiver([@ EXCEPT !.log = Append(@, <<"info", hook[w].user>>),
                                       !.inserted = @ + 1])]
       \/ /\ hook[w].user \in faulty
          /\ mv' = mv
          /\ hook' = [hook EXCEPT ![w] = Caught([@ EXCEPT !.faults = @ + 1])]
    /\ UNCHANGED <<users, profiles, now, faulty, pk_order, cmd, mv0, runs, events>>

\* ---------------------------------------------------------- initial states
InitTimes == (0 - ValidityDays - 1)..0
InitRows(u) ==
    {<<>>}
    \cup {<<[user_id |-> u, status |-> "approved", created_at |-> t]>> : t \in InitTimes}
    \cup {<<[user_id |-> u, status |-> "denied", created_at |-> 0]>>}

RECURSIVE Flatten(_, _)
\* the rows r[1], ..., r[n] one after the other
Flatten(r, n) == IF n = 0 THEN <<>> ELSE Flatten(r, n - 1) \o r[n]

Init ==
    /\ users \in SUBSET UserIds
    /\ \E r \in [UserIds -> UNION {InitRows(u) : u \in UserIds}] :
          /\ \A u \in UserIds : r[u] \in (IF u \in users THEN InitRows(u) ELSE {<<>>})
          /\ mv = Flatten(r, MaxUser)
    /\ profiles = SortedSeq(users)
    /\ now = 0
    /\ faulty = UserIds
    /\ pk_order \in BOOLEAN
    /\ cmd = IdleCmd
    /\ mv0 = mv
    /\ runs = 0
    /\ hook = [w \in Workers |-> IdleHook]
    /\ events = <<>>

CommandLines ==
    {<<a, u, DefaultBatchSize, d>> : a \in BOOLEAN, u \in {NoUsername} \cup UserIds, d \in BOOLEAN}
    \cup {<<TRUE, NoUsername, b, d>> : b \in BatchSizes, d \in BOOLEAN}

CommandNext ==
    \/ \E o \in CommandLines : Handle(o[1], o[2], o[3], o[4])
    \/ SingleCreate
    \/ BulkCount
    \/ BulkPreview
    \/ BulkList
    \/ BulkBatch
    \/ BulkUser
    \/ Tick

HookNext ==
    \/ \E w \in Workers, user \in UserIds : UserCreated(w, user)
    \/ \E w \in Workers, user \in UserIds, created \in BOOLEAN : UserSaved(w, user, created)
    \/ \E w \in Workers : sync_extended_profile(w)
    \/ \E w \in Workers : auto_approve_check(w)
    \/ \E w \in Workers : auto_approve_create(w)
    \/ Tick

\* command lines of the runs that write: one named user, or all users
WritingCommandLines ==
    {<<TRUE, NoUsername, DefaultBatchSize, FALSE>>}
    \cup {<<FALSE, u, DefaultBatchSize, FALSE>> : u \in UserIds}

\* the command and the receivers, interleaved
Next ==
    \/ \E o \in WritingCommandLines : Handle(o[1], o[2], o[3], o[4])
    \/ SingleCreate
    \/ BulkCount
    \/ BulkList
    \/ BulkBatch
    \/ BulkUser
    \/ \E w \in Workers, user \in UserIds : UserCreated(w, user)
    \/ \E w \in Workers, user \in UserIds, created \in BOOLEAN : UserSaved(w, user, created)
    \/ \E w \in Workers : sync_extended_profile(w)
    \/ \E w \in Workers : auto_approve_check(w)
    \/ \E w \in Workers : auto_approve_create(w)

\* the plugin has just been installed: no verification row exists yet
InitEmpty == Init /\ mv = <<>>

Spec == InitEmpty /\ [][Next]_vars

\* ------------------------------------------------- bulk runs over many users
\* table sizes around the progress interval and the preview limit
ManyUsers ==
    {1, PreviewLimit, PreviewLimit + 2, ProgressEvery - 1, ProgressEvery, ProgressEvery + 1,
     2 * ProgressEvery, 2 * ProgressEvery + 1}

\* users 1..n, none verified; only the first users' inserts may raise, and the
\* database returns rows in id order
InitMany ==
    /\ \E n \in ManyUsers : users = 1..n /\ profiles = SortedSeq(1..n)
    /\ mv = <<>>
    /\ now = 0
    /\ faulty \in SUBSET (UserIds \cap users)
    /\ pk_order = TRUE
    /\ cmd = IdleCmd
    /\ mv0 = mv
    /\ runs = 0
    /\ hook = [w \in Workers |-> IdleHook]
    /\ events = <<>>

ManyBatchSizes == {DefaultBatchSize, ProgressEvery, ProgressEvery - 1, PreviewLimit}

NextMany ==
    \/ \E b \in ManyBatchSizes, d \in BOOLEAN : Handle(TRUE, NoUsername, b, d)
    \/ BulkCount
    \/ BulkPreview
    \/ BulkList
    \/ BulkBatch
    \/ BulkUser

SpecMany == InitMany /\ [][NextMany]_vars

\* the command alone
SpecCommand == Init /\ [][CommandNext]_vars

\* the receivers alone
SpecHooks == Init /\ [][HookNext]_vars
\* ------------------------------------------------------------- properties
\* user u holds an approved row created at or after the cutoff
Verified(table, u, cutoff) ==
    \E i \in 1..Len(table) :
        table[i].user_id = u /\ table[i].status = "approved" /\ table[i].created_at >= cutoff

\* the approved rows of user u
ApprovedRows(table, u) ==
    {i \in 1..Len(table) : table[i].user_id = u /\ table[i].status = "approved"}

\* the rows added since the command started (the command is the only writer)
Added == SubSeq(mv, Len(mv0) + 1, Len(mv))

SingleRun == cmd.pc # "idle" /\ cmd.username # NoUsername
BulkRun == cmd.pc # "idle" /\ cmd.username = NoUsername /\ cmd.all_users
\* a bulk run that writes and has found work to do
BulkWrite == BulkRun /\ ~cmd.dry_run /\ cmd.total_users > 0

AlreadyLine(u) == <<"WARNING", "already has valid ID verification", u>>

\* C1: a user who holds a valid approved row when the command starts gets no insert:
\* the single-user run reports "already has valid ID verification" and writes nothing,
\* and the bulk run leaves the user out of its work list.
C1_VerifiedUserGetsNoInsert ==
    cmd.pc # "idle" =>
        \A u \in users :
            Verified(mv0, u, cmd.earliest_date) =>
                /\ u \notin Range(cmd.attempts)
                /\ ApprovedRows(Added, u) = {}
                /\ BulkRun => u \notin Range(cmd.user_ids) /\ u \notin Range(cmd.rows)
                /\ (SingleRun /\ cmd.username = u) =>
                      /\ cmd.pc = "done"
                      /\ cmd.stdout = <<AlreadyLine(u)>>
                      /\ mv = mv0

\* the second run for a user that the first run approved reports the user as verified
C1_Witness ==
    /\ runs = 2
    /\ SingleRun
    /\ cmd.pc = "done"
    /\ cmd.stdout = <<AlreadyLine(cmd.username)>>
    /\ \E i \in 1..Len(mv) : mv[i].user_id = cmd.username /\ mv[i].created_at > 0
    /\ Cardinality(ApprovedRows(mv, cmd.username)) = 1

\* C2: after a run that writes, every user the run covers who had no valid approved
\* row at the start has exactly one new approved row.
C2_ExactlyOneNewRow ==
    (cmd.pc = "done" /\ ~cmd.dry_run) =>
        \A u \in users :
            (/\ BulkRun \/ (SingleRun /\ cmd.username = u)
             /\ ~Verified(mv0, u, cmd.earliest_date))
            => Cardinality(ApprovedRows(Added, u)) = 1

\* C3: a dry run leaves the verification table as it found it.
C3_DryRunWritesNothing ==
    (cmd.pc # "idle" /\ cmd.dry_run) => mv = mv0 /\ cmd.attempts = <<>>

\* a finished bulk dry run that found two users to approve and listed them
C3_Witness ==
    /\ cmd.pc = "done"
    /\ cmd.dry_run
    /\ BulkRun
    /\ cmd.total_users = 2
    /\ cmd.stdout[2] = <<"SUCCESS", "[DRY RUN] Would approve", 2>>
    /\ Len(cmd.stdout) = 4

\* C4: a bulk run that writes attempts an insert for every id of the work list exactly
\* once, in ascending id order, whatever the batch size.
C4_EveryIdOnceAscending ==
    (cmd.pc = "done" /\ BulkWrite) => cmd.attempts = cmd.user_ids

\* C6: in a bulk run that writes, a raising insert is counted and logged and the run
\* goes on: every id is attempted, and Approved = work-list size - Errors.
C6_ErrorsCountedRunGoesOn ==
    /\ (BulkWrite /\ cmd.pc \in {"loop", "batch", "done"}) =>
          /\ cmd.error_count = Len(SelectSeq(cmd.log, LAMBDA l : l[1] = "error"))
          /\ cmd.approved_count + cmd.error_count = Len(cmd.attempts)
    /\ (BulkWrite /\ cmd.pc = "done") =>
          /\ Range(cmd.attempts) = Range(cmd.user_ids)
          /\ cmd.approved_count = Len(cmd.user_ids) - cmd.error_count
          /\ cmd.stdout[Len(cmd.stdout)] =
                <<"SUCCESS", "Completed!", cmd.approved_count, cmd.error_count>>

\* the same for positive batch sizes only
PositiveBatch_ErrorsCountedRunGoesOn == cmd.batch_size > 0 => C6_ErrorsCountedRunGoesOn

ProgressLines == SelectSeq(cmd.stdout, LAMBDA l : l[1] = "Progress")

\* the progress lines due while n approvals are counted: one per multiple of the interval
LinesAtMultiples(n) ==
    [k \in 1..(n \div ProgressEvery) |-> <<"Progress", k * ProgressEvery, cmd.total_users>>]

\* C5: in a bulk run that writes, a progress line follows at once each approval whose
\* running count is a multiple of 50; after the loop one more line is written exactly
\* when the final count N is positive and not a multiple of 50.
C5_ProgressLines ==
    /\ (BulkWrite /\ cmd.pc \in {"loop", "batch"}) =>
          ProgressLines = LinesAtMultiples(cmd.approved_count)
    /\ (BulkWrite /\ cmd.pc = "done") =>
          ProgressLines =
             LinesAtMultiples(cmd.approved_count)
             \o (IF cmd.approved_count > 0 /\ cmd.approved_count % ProgressEvery # 0
                 THEN << <<"Progress", cmd.approved_count, cmd.total_users>> >>
                 ELSE <<>>)

\* a finished run with 100 approvals and one error: two lines, no trailing line
C5_Witness ==
    /\ BulkWrite
    /\ cmd.pc = "done"
    /\ cmd.approved_count = 2 * ProgressEvery
    /\ cmd.error_count = 1
    /\ Len(ProgressLines) = 2

\* a finished run with 51 approvals: the line at 50 and the trailing line
C5_WitnessTrailing ==
    /\ BulkWrite
    /\ cmd.pc = "done"
    /\ cmd.approved_count = ProgressEvery + 1
    /\ Len(ProgressLines) = 2

\* created=True deliveries for user u so far
CreatedDeliveries(u) ==
    Cardinality({i \in 1..Len(events) : events[i][1] = u /\ events[i][2] \in {"new", "created"}})

\* u is an account created in this behaviour
NewAccount(u) == \E i \in 1..Len(events) : events[i] = <<u, "new">>

ProfileCount(u) == Cardinality({i \in 1..Len(profiles) : profiles[i] = u})

\* C7: an exception in the check or the insert of set_id_verification_status is caught
\* and logged, and never reaches the code that saved the user.
C7_ApprovalErrorsSwallowed ==
    \A w \in Workers :
        /\ hook[w].raised_by # "set_id_verification_status"
        /\ hook[w].pc = "raised" => hook[w].raised_by = "sync_extended_profile"
        /\ hook[w].faults = Len(SelectSeq(hook[w].log, LAMBDA l : l = <<"error", hook[w].user>>))
        /\ hook[w].faults > 0 => hook[w].pc \in {"dispatch", "returned", "raised"}

\* a new account whose approval insert raised: send() has returned, the error is logged
C7_Witness ==
    \E w \in Workers :
        /\ hook[w].pc = "returned"
        /\ hook[w].faults = 1
        /\ hook[w].log = << <<"error", hook[w].user>> >>
        /\ events = << <<hook[w].user, "new">> >>
        /\ ApprovedRows(mv, hook[w].user) = {}
        /\ ProfileCount(hook[w].user) = 1

C8_WitnessSecondDelivery ==
    \E w \in Workers :
        /\ hook[w].pc = "raised"
        /\ NewAccount(hook[w].user)
        /\ CreatedDeliveries(hook[w].user) = 2
        /\ Cardinality(ApprovedRows(mv, hook[w].user)) = 2

\* C10: a receiver and the command can both pass the check and both insert for one
\* user; rows are only ever added, never changed or removed, and a user the check
\* reports as verified stays verified under the same cutoff.
C10_RowsOnlyAdded ==
    [][/\ Len(mv') >= Len(mv)
       /\ SubSeq(mv', 1, Len(mv)) = mv
       /\ \A u \in UserIds :
             Verified(mv, u, now - ValidityDays) => Verified(mv', u, now - ValidityDays)]_vars

\* the race: a receiver and the bulk run have both inserted for the same user
C10_Witness ==
    \E w \in Workers :
        /\ hook[w].inserted = 1
        /\ BulkRun
        /\ hook[w].user \in Range(cmd.attempts)
        /\ runs = 1
        /\ CreatedDeliveries(hook[w].user) = 1
        /\ Cardinality(ApprovedRows(mv, hook[w].user)) = 2
        /\ Cardinality({i \in ApprovedRows(mv, hook[w].user) :
                            mv[i].created_at >= now - ValidityDays}) = 2
        /\ Verified(mv, hook[w].user, now - ValidityDays)
====
